---- MODULE Spec2Model ----
(***************************************************************************)
(* Model of autoswitcher.py: the block-scanning loop monitor_and_transfer  *)
(* and the retrying relay executor execute_safe_transaction.               *)
(*                                                                         *)
(* The remote node (w3) is the environment: every call on it either        *)
(* returns or raises, and what it returns is chosen nondeterministically.  *)
(***************************************************************************)
EXTENDS Integers, Sequences, FiniteSets, TLC

VARIABLES
    pc,                 \* position of monitor_and_transfer
    last_logged_block,  \* line 63: the scan cursor
    latest_block,       \* line 66: height read in the current cycle
    block_number,       \* line 70: loop variable of the block range
    cursor0,            \* history: last_logged_block when the cycle started
    napped,             \* seconds slept since the previous cycle ended
    entry,              \* history: how the current cycle was entered
    heightsRead,        \* history: the heights get_block_number has returned
    chain,              \* node: the transactions of each block number
    fetchLog,           \* history: block numbers passed to get_block, in order
    block,              \* line 73: block.transactions of the fetched block
    txIdx,              \* line 74: index of tx in block.transactions
    relayLog,           \* history: one record per execute_safe_transaction call
    attempt,            \* line 35: loop variable of the attempt loop
    epc,                \* position inside execute_safe_transaction
    nonce,              \* line 38: nonce read in the current attempt
    rSlept,             \* history: seconds slept (line 59) since the last attempt ended
    steps,              \* history: the calls of lines 38-50 made by the attempt so far
    txCount,            \* node: transaction count of the operator account
    inflight            \* node: index (in relayLog) of the call owning the
                        \*       pending relay transaction, 0 when none is pending

vars == <<pc, last_logged_block, latest_block, block_number, cursor0, napped,
          entry, heightsRead, chain, fetchLog, block, txIdx, relayLog, attempt,
          epc, nonce, rSlept, steps, txCount, inflight>>

monitorVars == <<pc, last_logged_block, latest_block, block_number, cursor0,
                 napped, entry>>
blockVars == <<fetchLog, block, txIdx>>
relayVars == <<relayLog, attempt, epc, nonce, rSlept, steps>>
nodeVars == <<txCount, inflight>>

-----------------------------------------------------------------------------
(* Program constants *)

MONITOR_INTERVAL == 60
BLOCK_RANGE == 100
RETRY_ATTEMPTS == 5
RETRY_DELAY == 5

(* Bounds of the model *)

\* heights the node may report: 0..MaxLow and BLOCK_RANGE..BLOCK_RANGE+MaxOver
MaxLow == 1
MaxOver == 2
\* largest native value / token amount carried by a modelled transaction
MaxValue == 2

Heights == (0 .. MaxLow) \cup (BLOCK_RANGE .. (BLOCK_RANGE + MaxOver))

Max(a, b) == IF a > b THEN a ELSE b
Min(a, b) == IF a < b THEN a ELSE b

-----------------------------------------------------------------------------
(* Addresses.  An address string is a 20-byte value (id) in some letter    *)
(* case (form); str.lower() changes the form and keeps the value.          *)

Addr(id, form) == [id |-> id, form |-> form]
None == Addr("None", "None")

YOUR_SAFE_ADDRESS == Addr("safe", "checksum")
YOUR_TARGET_WALLET == Addr("target", "checksum")
TOKEN_ADDRESSES == [USDT |-> Addr("usdt", "checksum"),
                    USDC |-> Addr("usdc", "checksum")]

\* dict.values()
TokenValues == {TOKEN_ADDRESSES[s] : s \in DOMAIN TOKEN_ADDRESSES}

\* str.lower()
Lower(a) == [a EXCEPT !.form = "lower"]

\* truth value of tx['to']: None (contract creation) is false
Truthy(a) == a # None

-----------------------------------------------------------------------------
(* Hex strings: sequences of one-character strings, "0x" prefix included.  *)

HexDigits == <<"0", "1", "2", "3", "4", "5", "6", "7",
               "8", "9", "a", "b", "c", "d", "e", "f">>

IsHex(c) == \E i \in 1..16 : HexDigits[i] = c
HexVal(c) == (CHOOSE i \in 1..16 : HexDigits[i] = c) - 1

\* s[a:b] of Python, on a 1-indexed sequence
Slice(s, a, b) == SubSeq(s, a + 1, Min(b, Len(s)))

\* str.startswith
StartsWith(s, p) == Len(s) >= Len(p) /\ SubSeq(s, 1, Len(p)) = p

\* int(s, 16) for a non-empty string of hex digits
RECURSIVE HexToInt(_)
HexToInt(s) ==
    IF s = <<>> THEN 0
    ELSE 16 * HexToInt(SubSeq(s, 1, Len(s) - 1)) + HexVal(s[Len(s)])

\* n as `width` hex digits, big-endian, zero padded; the digit at position
\* i weighs 16^(width - i), and every n of the model is below 16^8
IntToHex(n, width) ==
    [i \in 1..width |->
        LET k == width - i
        IN  IF k >= 8 THEN "0" ELSE HexDigits[((n \div 16^k) % 16) + 1]]

\* the 40 hex digits of an address value (one digit stands for each value)
AddrDigit(id) ==
    CASE id = "safe" -> "3"
      [] id = "target" -> "d"
      [] id = "usdt" -> "c"
      [] id = "usdc" -> "2"
      [] OTHER -> "9"
AddrHex(a) == [i \in 1..40 |-> AddrDigit(a.id)]

TRANSFER_SELECTOR == <<"0", "x", "a", "9", "0", "5", "9", "c", "b", "b">>
OTHER_SELECTOR == <<"0", "x", "0", "9", "5", "e", "a", "7", "b", "3">>
EMPTY_DATA == <<>>

\* contract.encodeABI(fn_name='transfer', args=[to, value]):
\* selector, address right-aligned in 32 bytes, uint256 big-endian
EncodeCall(selector, to, value) ==
    selector \o [i \in 1..24 |-> "0"] \o AddrHex(to) \o IntToHex(value, 64)
EncodeTransfer(to, value) == EncodeCall(TRANSFER_SELECTOR, to, value)

-----------------------------------------------------------------------------
(* Transactions and their classification (lines 75-86).                    *)

Tx(to, value, input) == [to |-> to, value |-> value, input |-> input]

\* what the loop body does with one transaction: nothing, one call of
\* execute_safe_transaction(to, value, data), or an exception
NoEvent == [kind |-> "none", to |-> None, value |-> 0, data |-> EMPTY_DATA]
Raised == [kind |-> "raise", to |-> None, value |-> 0, data |-> EMPTY_DATA]
RelayCall(to, value, data) ==
    [kind |-> "call", to |-> to, value |-> value, data |-> data]

\* lines 80-86: the ERC-20 branch
ForwardToken(tx) ==
    LET token_address == tx.to
        amount == Slice(tx.input, 74, 138)
    IN  IF amount = <<>> \/ \E i \in 1..Len(amount) : ~IsHex(amount[i])
        THEN Raised     \* int('', 16) raises ValueError
        ELSE LET value == HexToInt(amount)
                 transfer_data == EncodeTransfer(YOUR_TARGET_WALLET, value)
             IN  RelayCall(token_address, 0, transfer_data)

\* mutant: line 75 compares the recipient without .lower()
Classify_CaseSensitive(tx) ==
    IF Truthy(tx.to) /\ tx.to = YOUR_SAFE_ADDRESS
    THEN IF tx.value > 0
         THEN RelayCall(YOUR_TARGET_WALLET, tx.value, EMPTY_DATA)
         ELSE IF tx.to \in TokenValues /\ StartsWith(tx.input, TRANSFER_SELECTOR)
              THEN ForwardToken(tx)
              ELSE NoEvent
    ELSE NoEvent

\* mutant: line 76 tests tx['value'] >= 0
Classify_NonNegative(tx) ==
    IF Truthy(tx.to) /\ Lower(tx.to) = Lower(YOUR_SAFE_ADDRESS)
    THEN IF tx.value >= 0
         THEN RelayCall(YOUR_TARGET_WALLET, tx.value, EMPTY_DATA)
         ELSE IF tx.to \in TokenValues /\ StartsWith(tx.input, TRANSFER_SELECTOR)
              THEN ForwardToken(tx)
              ELSE NoEvent
    ELSE NoEvent

\* mutant: the test of line 79 is made for every recipient, not only under
\* line 75
Classify_Unnested(tx) ==
    IF Truthy(tx.to) /\ Lower(tx.to) = Lower(YOUR_SAFE_ADDRESS) /\ tx.value > 0
    THEN RelayCall(YOUR_TARGET_WALLET, tx.value, EMPTY_DATA)
    ELSE IF Truthy(tx.to) /\ tx.to \in TokenValues
                /\ StartsWith(tx.input, TRANSFER_SELECTOR)
         THEN ForwardToken(tx)
         ELSE NoEvent

\* lines 75-86
Classify(tx) ==
    IF Truthy(tx.to) /\ Lower(tx.to) = Lower(YOUR_SAFE_ADDRESS)
    THEN IF tx.value > 0
         THEN RelayCall(YOUR_TARGET_WALLET, tx.value, EMPTY_DATA)
         ELSE IF tx.to \in TokenValues /\ StartsWith(tx.input, TRANSFER_SELECTOR)
              THEN ForwardToken(tx)
              ELSE NoEvent
    ELSE NoEvent

-----------------------------------------------------------------------------
(* The chain served by the node.                                           *)

NativeTx == Tx(YOUR_SAFE_ADDRESS, MaxValue, <<"0", "x">>)
TokenTx == Tx(TOKEN_ADDRESSES.USDT, 0, EncodeTransfer(YOUR_SAFE_ADDRESS, MaxValue))

\* a transfer call to a registered token whose payload stops inside the
\* first argument: tx['input'][74:138] is ''
TruncatedTx ==
    Tx(TOKEN_ADDRESSES.USDT, 0,
       SubSeq(EncodeTransfer(YOUR_SAFE_ADDRESS, MaxValue), 1, Len(TRANSFER_SELECTOR) + 40))

\* blocks of the chain the scan loop runs against
MainBlocks == {<<>>, <<NativeTx>>, <<TokenTx>>}

\* chains with at most one block that is not empty
OneBlockChains(blocks) ==
    {[h \in Heights |-> IF h = d THEN b ELSE <<>>] : d \in Heights, b \in blocks}

\* block.transactions of block n
ChainBlock(n) == IF n \in DOMAIN chain THEN chain[n] ELSE <<>>

-----------------------------------------------------------------------------
(* monitor_and_transfer (lines 62-90)                                      *)

\* mutant: the test of line 67 is latest_block < last_logged_block
UpdateCursor_Lowest(latest, last) == IF latest < last THEN latest ELSE last

\* mutant: line 69 without the test of line 67
UpdateCursor_Overwrite(latest, last) == latest

\* lines 67-69
UpdateCursor(latest, last) == IF latest > last THEN latest ELSE last

\* line 70: range(max(0, latest_block - BLOCK_RANGE), latest_block + 1)
ScanRange(latest) == Max(0, latest - BLOCK_RANGE) .. latest

\* lines 70-72: the block numbers of the range, from b on, that line 71
\* does not skip
ToFetch(b, latest, last) ==
    {n \in ScanRange(latest) : n >= b /\ ~(n <= last)}

Init ==
    /\ pc = "height"
    /\ last_logged_block = 0
    /\ latest_block = 0
    /\ block_number = 0
    /\ cursor0 = 0
    /\ napped = 0
    /\ entry = "start"
    /\ heightsRead = {}
    /\ chain \in OneBlockChains(MainBlocks)
    /\ fetchLog = <<>>
    /\ block = <<>>
    /\ txIdx = 0
    /\ relayLog = <<>>
    /\ attempt = 0
    /\ epc = "idle"
    /\ nonce = 0
    /\ rSlept = 0
    /\ steps = <<>>
    /\ txCount = 0
    /\ inflight = 0

\* lines 66-69: the height read succeeds
GetBlockNumber ==
    /\ pc = "height"
    /\ \E h \in Heights :
        /\ latest_block' = h
        /\ last_logged_block' = UpdateCursor(h, last_logged_block)
        /\ block_number' = Max(0, h - BLOCK_RANGE)
        /\ heightsRead' = heightsRead \cup {h}
    /\ cursor0' = last_logged_block
    /\ napped' = 0
    /\ pc' = "for"
    /\ UNCHANGED <<entry, chain, blockVars, relayVars, nodeVars>>

\* mutant: a failed height read puts the cursor back to 0
GetBlockNumberRaises_ResetsCursor ==
    /\ pc = "height"
    /\ cursor0' = last_logged_block
    /\ napped' = 0
    /\ pc' = "except"
    /\ last_logged_block' = 0
    /\ UNCHANGED <<latest_block, block_number, entry, heightsRead, chain,
                   blockVars, relayVars, nodeVars>>

\* line 66 raises: control goes to the handler of line 88
GetBlockNumberRaises ==
    /\ pc = "height"
    /\ cursor0' = last_logged_block
    /\ napped' = 0
    /\ pc' = "except"
    /\ UNCHANGED <<last_logged_block, latest_block, block_number, entry,
                   heightsRead, chain,
                   blockVars, relayVars, nodeVars>>

\* lines 70-72: advance to the next block number that is not skipped, or
\* leave the loop when there is none
ForStep ==
    /\ pc = "for"
    /\ LET todo == ToFetch(block_number, latest_block, last_logged_block)
       IN  IF todo = {}
           THEN /\ pc' = "sleep"
                /\ UNCHANGED block_number
           ELSE /\ pc' = "fetch"
                /\ block_number' = CHOOSE n \in todo : \A m \in todo : n <= m
    /\ UNCHANGED <<last_logged_block, latest_block, cursor0, napped, entry,
                   heightsRead, chain, blockVars, relayVars, nodeVars>>

\* line 87
CycleSleep ==
    /\ pc = "sleep"
    /\ napped' = MONITOR_INTERVAL
    /\ entry' = "sleep"
    /\ pc' = "height"
    /\ UNCHANGED <<last_logged_block, latest_block, block_number, cursor0,
                   heightsRead, chain, blockVars, relayVars, nodeVars>>

\* mutant: the handler of line 88 lets the error out of the loop
ExceptSleep_Reraise ==
    /\ pc = "except"
    /\ pc' = "dead"
    /\ UNCHANGED <<last_logged_block, latest_block, block_number, cursor0,
                   napped, entry, heightsRead, chain, blockVars, relayVars,
                   nodeVars>>

\* lines 88-90
ExceptSleep ==
    /\ pc = "except"
    /\ napped' = MONITOR_INTERVAL
    /\ entry' = "except"
    /\ pc' = "height"
    /\ UNCHANGED <<last_logged_block, latest_block, block_number, cursor0,
                   heightsRead, chain, blockVars, relayVars, nodeVars>>

-----------------------------------------------------------------------------
(* The body of the block loop (lines 73-86)                                *)

\* line 73 returns the block
FetchBlock ==
    /\ pc = "fetch"
    /\ fetchLog' = Append(fetchLog, block_number)
    /\ block' = ChainBlock(block_number)
    /\ txIdx' = 1
    /\ pc' = "tx"
    /\ UNCHANGED <<last_logged_block, latest_block, block_number, cursor0,
                   napped, entry, heightsRead, chain, relayVars, nodeVars>>

\* line 73 raises (block not found, transport error)
FetchBlockRaises ==
    /\ pc = "fetch"
    /\ fetchLog' = Append(fetchLog, block_number)
    /\ pc' = "except"
    /\ UNCHANGED <<last_logged_block, latest_block, block_number, cursor0,
                   napped, entry, heightsRead, chain, block, txIdx, relayVars,
                   nodeVars>>

\* the record relayLog keeps of one call of execute_safe_transaction
NewCall(c) ==
    [blk |-> block_number, idx |-> txIdx,
     to |-> c.to, value |-> c.value, data |-> c.data,
     result |-> "active",   \* "active", then "None" or the receipt's status
     tries |-> 0,           \* attempts started
     fails |-> 0,           \* attempts that ended without a success receipt
     confirmed |-> 0,       \* relay transactions of the call confirmed on chain
     quiet |-> FALSE,       \* the last failed attempt raised nothing
     unobserved |-> FALSE,  \* an accepted submission was left without its
                            \* receipt having been seen
     termLogged |-> FALSE]  \* line 56 logged the terminal failure

\* mutant: line 78 starts the relay call and goes on with the next
\* transaction without waiting for it to return
TxStep_Async ==
    /\ pc = "tx"
    /\ txIdx <= Len(block)
    /\ LET c == Classify(block[txIdx])
       IN  IF c.kind = "call"
           THEN /\ relayLog' = Append(relayLog, NewCall(c))
                /\ attempt' = 0
                /\ epc' = "nonce"
                /\ rSlept' = 0
                /\ steps' = <<>>
                /\ pc' = "tx"
                /\ txIdx' = txIdx + 1
           ELSE /\ IF c.kind = "raise"
                   THEN pc' = "except" /\ UNCHANGED txIdx
                   ELSE pc' = "tx" /\ txIdx' = txIdx + 1
                /\ UNCHANGED <<relayLog, attempt, epc, rSlept, steps>>
    /\ UNCHANGED <<last_logged_block, latest_block, block_number, cursor0,
                   napped, entry, heightsRead, chain, fetchLog, block, nonce,
                   nodeVars>>

\* lines 74-86 for the transaction at txIdx
TxStep ==
    /\ pc = "tx"
    /\ txIdx <= Len(block)
    /\ LET c == Classify(block[txIdx])
       IN  IF c.kind = "call"
           THEN /\ relayLog' = Append(relayLog, NewCall(c))
                /\ attempt' = 0
                /\ epc' = "nonce"
                /\ rSlept' = 0
                /\ steps' = <<>>
                /\ pc' = "exec"
                /\ UNCHANGED txIdx
           ELSE /\ IF c.kind = "raise"
                   THEN pc' = "except" /\ UNCHANGED txIdx
                   ELSE pc' = "tx" /\ txIdx' = txIdx + 1
                /\ UNCHANGED <<relayLog, attempt, epc, rSlept, steps>>
    /\ UNCHANGED <<last_logged_block, latest_block, block_number, cursor0,
                   napped, entry, heightsRead, chain, fetchLog, block, nonce,
                   nodeVars>>

\* line 74 is exhausted: the block loop goes on with the next number
BlockDone ==
    /\ pc = "tx"
    /\ txIdx > Len(block)
    /\ block_number' = block_number + 1
    /\ pc' = "for"
    /\ UNCHANGED <<last_logged_block, latest_block, cursor0, napped, entry,
                   heightsRead, chain, blockVars, relayVars, nodeVars>>

-----------------------------------------------------------------------------
(* execute_safe_transaction (lines 34-60)                                  *)

cur == Len(relayLog)

Receipt(status) == [present |-> TRUE, status |-> status]
NoReceipt == [present |-> FALSE, status |-> 0]

\* what a call that returns `receipt` is recorded as
ResultOf(receipt) == IF receipt.status = 1 THEN "status1" ELSE "status0"

\* mutant: line 51 tests the receipt only for presence
ReceiptOk_AnyReceipt(receipt) == receipt.present

\* line 51
ReceiptOk(receipt) == receipt.present /\ receipt.status = 1

\* mutant: the range of line 35 is one too long
MoreAttempts_OffByOne(a) == a + 1 <= RETRY_ATTEMPTS

\* line 35: range(RETRY_ATTEMPTS) has a value after `a`
MoreAttempts(a) == a + 1 < RETRY_ATTEMPTS

monitorFrame == <<last_logged_block, latest_block, block_number, cursor0,
                  napped, entry, heightsRead, chain, fetchLog, block>>

\* a step of the attempt raises: control goes to line 54
RaiseInAttempt ==
    /\ epc' = "handler"
    /\ UNCHANGED <<pc, txIdx, attempt, nonce, nodeVars>>

\* mutant: the next attempt keeps the nonce of the one before and starts at
\* line 40
LoopAdvance_ReuseNonce(log) ==
    IF MoreAttempts(attempt)
    THEN /\ attempt' = attempt + 1
         /\ epc' = "gas"
         /\ relayLog' = log
         /\ steps' = <<>>
         /\ UNCHANGED <<pc, txIdx>>
    ELSE /\ relayLog' = [log EXCEPT ![cur].result = "None"]
         /\ epc' = "idle"
         /\ pc' = "tx"
         /\ txIdx' = txIdx + 1
         /\ steps' = <<>>
         /\ UNCHANGED attempt

\* the attempt is over without a return: line 35 takes the next value of
\* the range, or the loop ends and line 60 returns None
LoopAdvance(log) ==
    IF MoreAttempts(attempt)
    THEN /\ attempt' = attempt + 1
         /\ epc' = "nonce"
         /\ relayLog' = log
         /\ steps' = <<>>
         /\ UNCHANGED <<pc, txIdx>>
    ELSE /\ relayLog' = [log EXCEPT ![cur].result = "None"]
         /\ epc' = "idle"
         /\ pc' = "tx"
         /\ txIdx' = txIdx + 1
         /\ steps' = <<>>
         /\ UNCHANGED attempt

\* the calls of one attempt in the order of lines 38-50
AttemptSteps == <<"nonce", "gas", "price", "sign", "send", "wait">>

\* lines 36-38: an attempt starts and reads the account nonce
ReadNonce ==
    /\ pc = "exec" /\ epc = "nonce"
    /\ steps' = Append(steps, "nonce")
    /\ relayLog' = [relayLog EXCEPT ![cur].tries = @ + 1]
    /\ rSlept' = 0
    /\ \/ /\ nonce' = txCount
          /\ epc' = "gas"
          /\ UNCHANGED <<pc, txIdx, attempt, nodeVars>>
       \/ RaiseInAttempt
    /\ UNCHANGED monitorFrame

\* lines 39-40: estimateGas
EstimateGas ==
    /\ pc = "exec" /\ epc = "gas"
    /\ steps' = Append(steps, "gas")
    /\ \/ /\ epc' = "price"
          /\ UNCHANGED <<pc, txIdx, attempt, nonce, nodeVars>>
       \/ RaiseInAttempt
    /\ UNCHANGED <<monitorFrame, relayLog, rSlept>>

\* line 45: w3.eth.gas_price, read while the transaction is assembled
ReadGasPrice ==
    /\ pc = "exec" /\ epc = "price"
    /\ steps' = Append(steps, "price")
    /\ \/ /\ epc' = "sign"
          /\ UNCHANGED <<pc, txIdx, attempt, nonce, nodeVars>>
       \/ RaiseInAttempt
    /\ UNCHANGED <<monitorFrame, relayLog, rSlept>>

\* lines 41-48: encodeABI and sign_transaction
SignTransaction ==
    /\ pc = "exec" /\ epc = "sign"
    /\ steps' = Append(steps, "sign")
    /\ \/ /\ epc' = "send"
          /\ UNCHANGED <<pc, txIdx, attempt, nonce, nodeVars>>
       \/ RaiseInAttempt
    /\ UNCHANGED <<monitorFrame, relayLog, rSlept>>

\* line 49: the node accepts the transaction when its nonce is the
\* account's next one (replacing a pending transaction of that nonce), and
\* may reject it or fail to answer in any case
SendRawTransaction ==
    /\ pc = "exec" /\ epc = "send"
    /\ steps' = Append(steps, "send")
    /\ \/ /\ nonce = txCount
          /\ inflight' = cur
          /\ epc' = "wait"
          /\ UNCHANGED <<pc, txIdx, attempt, nonce, txCount>>
       \/ RaiseInAttempt
    /\ UNCHANGED <<monitorFrame, relayLog, rSlept>>

\* lines 50-53 with a receipt: the transaction was mined
WaitReceipt ==
    /\ pc = "exec" /\ epc = "wait"
    /\ \E status \in {0, 1} :
        LET receipt == Receipt(status)
            mined == [relayLog EXCEPT ![cur].confirmed = @ + status]
        IN  /\ txCount' = txCount + 1
            /\ inflight' = 0
            /\ IF ReceiptOk(receipt)
               THEN /\ relayLog' = [mined EXCEPT ![cur].result = ResultOf(receipt)]
                    /\ epc' = "idle"
                    /\ pc' = "tx"
                    /\ txIdx' = txIdx + 1
                    /\ steps' = <<>>
                    /\ UNCHANGED attempt
               ELSE LoopAdvance([mined EXCEPT ![cur].fails = @ + 1,
                                              ![cur].quiet = TRUE])
    /\ UNCHANGED <<monitorFrame, nonce, rSlept>>

\* lines 50-51 without a receipt: the wait returns nothing
WaitNoReceipt ==
    /\ pc = "exec" /\ epc = "wait"
    /\ ~ReceiptOk(NoReceipt)
    /\ LoopAdvance([relayLog EXCEPT ![cur].fails = @ + 1,
                                    ![cur].quiet = TRUE,
                                    ![cur].unobserved = TRUE])
    /\ UNCHANGED <<monitorFrame, nonce, rSlept, nodeVars>>

\* line 50 raises (the wait timed out, transport error)
WaitRaises ==
    /\ pc = "exec" /\ epc = "wait"
    /\ steps' = Append(steps, "wait")
    /\ RaiseInAttempt
    /\ relayLog' = [relayLog EXCEPT ![cur].unobserved = TRUE]
    /\ UNCHANGED <<monitorFrame, rSlept>>

\* lines 54-59: log, sleep, and on to the next attempt
Handler ==
    /\ pc = "exec" /\ epc = "handler"
    /\ rSlept' = RETRY_DELAY
    /\ LoopAdvance([relayLog EXCEPT
                        ![cur].fails = @ + 1,
                        ![cur].quiet = FALSE,
                        ![cur].termLogged = (attempt = RETRY_ATTEMPTS - 1)])
    /\ UNCHANGED <<monitorFrame, nonce, nodeVars>>

\* the node mines a pending relay transaction nobody is waiting for
NodeMines ==
    /\ inflight # 0
    /\ epc # "wait"
    /\ \E status \in {0, 1} :
        relayLog' = [relayLog EXCEPT ![inflight].confirmed = @ + status]
    /\ txCount' = txCount + 1
    /\ inflight' = 0
    /\ UNCHANGED <<monitorVars, heightsRead, chain, blockVars, attempt, epc,
                   nonce, rSlept, steps>>

-----------------------------------------------------------------------------
\* The steps of the program that are enabled in some state reachable from
\* Init.  ForStep never finds a block to fetch there (NeverFetches), so the
\* steps of lines 73-86 and of execute_safe_transaction (BodyNext) are not
\* among them.
Next ==
    \/ GetBlockNumber
    \/ GetBlockNumberRaises
    \/ ForStep
    \/ CycleSleep
    \/ ExceptSleep

Spec == Init /\ [][Next]_vars

\* the scan loop is a running thread: an enabled step is eventually taken
LiveSpec == Spec /\ WF_vars(Next)

-----------------------------------------------------------------------------
(* The loop body driven with a block.  No state reachable from Init is at  *)
(* line 73 (NeverFetches), so lines 73-86 and execute_safe_transaction are *)
(* exercised from the states InitBlock describes: the loop stands at       *)
(* line 73 for the block below the tip of the chain, above the cursor, and *)
(* SpecBlock runs the rest of that cycle.                                  *)

HarnessBlocks ==
    {<<NativeTx>>, <<TokenTx>>, <<NativeTx, TokenTx>>, <<NativeTx, NativeTx>>,
     <<TruncatedTx, NativeTx>>}

InitBlock ==
    /\ pc = "fetch"
    /\ block_number = BLOCK_RANGE + MaxOver - 1
    /\ latest_block = block_number + 1
    /\ last_logged_block = 0
    /\ cursor0 = 0
    /\ napped = 0
    /\ entry = "start"
    /\ heightsRead = {latest_block}
    /\ \E b \in HarnessBlocks :
        chain = [h \in Heights |-> IF h = block_number THEN b ELSE <<>>]
    /\ fetchLog = <<>>
    /\ block = <<>>
    /\ txIdx = 0
    /\ relayLog = <<>>
    /\ attempt = 0
    /\ epc = "idle"
    /\ nonce = 0
    /\ rSlept = 0
    /\ steps = <<>>
    /\ txCount = 0
    /\ inflight = 0

\* the steps of lines 73-86 and of execute_safe_transaction
BodyNext ==
    \/ FetchBlock
    \/ FetchBlockRaises
    \/ TxStep
    \/ BlockDone
    \/ ReadNonce
    \/ EstimateGas
    \/ ReadGasPrice
    \/ SignTransaction
    \/ SendRawTransaction
    \/ WaitReceipt
    \/ WaitNoReceipt
    \/ WaitRaises
    \/ Handler

CycleNext == BodyNext \/ ForStep \/ CycleSleep \/ ExceptSleep

SpecBlock == InitBlock /\ [][CycleNext \/ NodeMines]_vars

\* The program run on from a state at line 73: the rest of that cycle as
\* under SpecBlock, for a block of one native deposit, and the cycles that
\* follow it.
InitFrame == InitBlock /\ ChainBlock(block_number) = <<NativeTx>>

FrameNext == CycleNext \/ NodeMines \/ GetBlockNumber \/ GetBlockNumberRaises

SpecFrame == InitFrame /\ [][FrameNext]_vars

-----------------------------------------------------------------------------
(* The classification of lines 74-86 applied to any transaction: the loop  *)
(* stands at line 74 with a fetched block of transactions of BlockTxs, and *)
(* SpecClassify runs it until a call of execute_safe_transaction starts or *)
(* the block is exhausted.                                                 *)

OTHER_ADDRESS == Addr("other", "checksum")

Recipients == {None, YOUR_SAFE_ADDRESS, Lower(YOUR_SAFE_ADDRESS),
               TOKEN_ADDRESSES.USDT, Lower(TOKEN_ADDRESSES.USDT),
               TOKEN_ADDRESSES.USDC, OTHER_ADDRESS}

WellFormed == EncodeTransfer(YOUR_SAFE_ADDRESS, MaxValue)

Payloads == {<<"0", "x">>,
             WellFormed,
             EncodeTransfer(OTHER_ADDRESS, MaxValue),
             SubSeq(WellFormed, 1, 50),
             SubSeq(WellFormed, 1, 100),
             EncodeCall(OTHER_SELECTOR, YOUR_SAFE_ADDRESS, MaxValue)}

BlockTxs == {Tx(to, v, in) : to \in Recipients, v \in 0..MaxValue, in \in Payloads}

\* blocks of one transaction, and of an irrelevant one followed by another
ClassifyBlocks ==
    {<<t>> : t \in BlockTxs} \cup {<<Tx(None, 0, <<"0", "x">>), t>> : t \in BlockTxs}

InitClassify ==
    /\ pc = "tx"
    /\ block_number = BLOCK_RANGE + MaxOver
    /\ latest_block = block_number
    /\ last_logged_block = 0
    /\ cursor0 = 0
    /\ napped = 0
    /\ entry = "start"
    /\ heightsRead = {latest_block}
    /\ block \in ClassifyBlocks
    /\ chain = [h \in Heights |-> IF h = block_number THEN block ELSE <<>>]
    /\ fetchLog = <<block_number>>
    /\ txIdx = 1
    /\ relayLog = <<>>
    /\ attempt = 0
    /\ epc = "idle"
    /\ nonce = 0
    /\ rSlept = 0
    /\ steps = <<>>
    /\ txCount = 0
    /\ inflight = 0

SpecClassify == InitClassify /\ [][TxStep \/ BlockDone]_vars

-----------------------------------------------------------------------------
(* Properties                                                              *)

\* Under Spec the loop never reaches line 73: every block number of the
\* range is at most latest_block, which line 69 has already made the cursor.
NeverFetches == pc # "fetch" /\ fetchLog = <<>> /\ relayLog = <<>>

\* the calls of execute_safe_transaction made for transaction i of block b
RelaysOf(b, i) ==
    {j \in 1..Len(relayLog) : relayLog[j].blk = b /\ relayLog[j].idx = i}

\* a positive native value sent to the watched address, in any letter case
IsNativeDeposit(tx) ==
    /\ tx.to # None
    /\ tx.to.id = YOUR_SAFE_ADDRESS.id
    /\ tx.value > 0

\* the registry address equal to `a` up to letter case, if any
Registered(a) == {t \in TokenValues : a # None /\ t.id = a.id}

\* a well-formed transfer(address,uint256) payload naming `a` as recipient
IsTransferTo(input, a) ==
    /\ Len(input) = 138
    /\ SubSeq(input, 1, 10) = TRANSFER_SELECTOR
    /\ SubSeq(input, 11, 74) = [i \in 1..24 |-> "0"] \o AddrHex(a)
    /\ \A i \in 75..138 : IsHex(input[i])

\* the amount such a payload carries
TransferAmount(input) == HexToInt(SubSeq(input, 75, 138))

\* a transfer call to a registered token naming the watched address
IsTokenDeposit(tx) ==
    /\ Registered(tx.to) # {}
    /\ IsTransferTo(tx.input, YOUR_SAFE_ADDRESS)

\* exactly one relay call was made for transaction i of block b, and it
\* carries (to, value, data)
RelayedOnce(b, i, to, value, data) ==
    /\ Cardinality(RelaysOf(b, i)) = 1
    /\ \A j \in RelaysOf(b, i) :
        /\ relayLog[j].to = to
        /\ relayLog[j].value = value
        /\ relayLog[j].data = data

\* the block numbers a cycle has to scan: those of its range above the
\* cursor the cycle started with
DueBlocks == {b \in ScanRange(latest_block) : b > cursor0}

\* C1: when a cycle has run to its sleep without an error, every native
\* deposit in a block of its range above the cursor has been relayed by
\* exactly one call (YOUR_TARGET_WALLET, value, empty data).
C1_NativeEndToEnd ==
    pc = "sleep" =>
        \A b \in DueBlocks : \A i \in 1..Len(ChainBlock(b)) :
            LET tx == ChainBlock(b)[i]
            IN  IsNativeDeposit(tx) =>
                    RelayedOnce(b, i, YOUR_TARGET_WALLET, tx.value, EMPTY_DATA)

\* C2: when a cycle has run to its sleep without an error, every token
\* deposit in a block of its range above the cursor has been relayed by
\* exactly one call (token, 0, transfer(YOUR_TARGET_WALLET, amount)).
C2_TokenEndToEnd ==
    pc = "sleep" =>
        \A b \in DueBlocks : \A i \in 1..Len(ChainBlock(b)) :
            LET tx == ChainBlock(b)[i]
            IN  IsTokenDeposit(tx) =>
                    \E t \in Registered(tx.to) :
                        RelayedOnce(b, i, t, 0,
                            EncodeTransfer(YOUR_TARGET_WALLET,
                                           TransferAmount(tx.input)))

NoRefetch ==
    \A i, j \in 1..Len(fetchLog) : i # j => fetchLog[i] # fetchLog[j]

\* C3: in every step the cursor stays or grows, whatever height the node
\* returns, and no block number is passed to get_block twice.
C3_CursorMonotone ==
    [][last_logged_block' >= last_logged_block /\ NoRefetch']_vars

\* the node returned a height below the cursor, and the cursor was kept
C3_Witness ==
    /\ pc = "for"
    /\ latest_block < cursor0
    /\ last_logged_block = cursor0

\* C4: a call that returns a receipt returns a success receipt, after
\* k < RETRY_ATTEMPTS failed attempts and exactly k + 1 attempts; the counts
\* stay so, that is no attempt follows the success.
C4_SuccessAfterKFailures ==
    \A j \in 1..Len(relayLog) :
        LET r == relayLog[j]
        IN  r.result \notin {"active", "None"} =>
                /\ r.result = "status1"
                /\ r.fails < RETRY_ATTEMPTS
                /\ r.tries = r.fails + 1

\* the last attempt of the budget succeeded after RETRY_ATTEMPTS - 1 failures
C4_Witness ==
    \E j \in 1..Len(relayLog) :
        /\ relayLog[j].result = "status1"
        /\ relayLog[j].fails = RETRY_ATTEMPTS - 1

\* C5: a call makes at most RETRY_ATTEMPTS attempts and returns None exactly
\* when RETRY_ATTEMPTS attempts have failed, in whatever way each failed; the
\* call ends by returning to line 74, never in the handler of line 88, and
\* the loop goes on with the next transaction of the block.
C5_NoneAfterAllAttempts ==
    /\ [](\A j \in 1..Len(relayLog) :
            LET r == relayLog[j]
            IN  /\ r.tries <= RETRY_ATTEMPTS
                /\ r.fails <= r.tries
                /\ (r.result = "None") = (r.fails = RETRY_ATTEMPTS))
    /\ [][(pc = "exec" /\ pc' # "exec") =>
            /\ pc' = "tx"
            /\ relayLog'[cur].result # "active"
            /\ txIdx' = txIdx + 1
            /\ block_number' = block_number]_vars

\* a call returned None, its last attempt having ended with a receipt that
\* reports failure, and the loop has classified the next transaction
C5_Witness ==
    /\ Len(relayLog) = 1
    /\ relayLog[1].result = "None"
    /\ relayLog[1].quiet
    /\ block = <<NativeTx, TokenTx>>
    /\ pc = "tx"
    /\ txIdx = 3

\* C6: at most one relay transaction of a call is ever confirmed on chain,
\* and no submission of a call is made after an earlier accepted one was
\* left without its receipt having been seen.
C6_IdempotentSubmission ==
    \A j \in 1..Len(relayLog) :
        /\ relayLog[j].confirmed <= 1
        /\ ~(j = cur /\ pc = "exec" /\ epc = "wait" /\ relayLog[j].unobserved)

\* the number of the block whose transactions are being classified
ScannedBlock == fetchLog[Len(fetchLog)]

\* transaction i of the fetched block has been through lines 75-86
Classified(i) == i < txIdx \/ (i = txIdx /\ pc \in {"exec", "except"})

\* C7: a classified transaction to the watched address (in any letter case)
\* with a positive value has exactly one relay call, which carries
\* (YOUR_TARGET_WALLET, value, empty data), whatever its payload.
C7_NativeClassified ==
    \A i \in 1..Len(block) :
        Classified(i) /\ IsNativeDeposit(block[i]) =>
            RelayedOnce(ScannedBlock, i, YOUR_TARGET_WALLET, block[i].value,
                        EMPTY_DATA)

\* a lower-case recipient and a transfer payload: relayed as a native deposit
C7_Witness ==
    /\ pc = "exec"
    /\ block[txIdx] = Tx(Lower(YOUR_SAFE_ADDRESS), MaxValue, WellFormed)
    /\ Len(relayLog) = 1

\* C8: a classified transfer call to a registered token that names the
\* watched address has exactly one relay call, to the matched registry
\* address, with value 0 and transfer(YOUR_TARGET_WALLET, amount) as data;
\* a call to a registered token with a shorter payload has no relay call
\* and raises nothing.
C8_TokenClassified ==
    \A i \in 1..Len(block) :
        Classified(i) =>
            /\ IsTokenDeposit(block[i]) =>
                   \E t \in Registered(block[i].to) :
                       RelayedOnce(ScannedBlock, i, t, 0,
                           EncodeTransfer(YOUR_TARGET_WALLET,
                                          TransferAmount(block[i].input)))
            /\ (Registered(block[i].to) # {} /\ Len(block[i].input) < 138) =>
                   RelaysOf(ScannedBlock, i) = {} /\ pc # "except"

\* C9: a classified transaction that is neither a native deposit nor a
\* token deposit has no relay call and raises nothing.
C9_OthersIgnored ==
    \A i \in 1..Len(block) :
        (Classified(i) /\ ~IsNativeDeposit(block[i]) /\ ~IsTokenDeposit(block[i]))
            => RelaysOf(ScannedBlock, i) = {} /\ pc # "except"

\* a contract creation, then a value-0 transfer call to the watched address:
\* both classified, no relay call
C9_Witness ==
    /\ block = <<Tx(None, 0, <<"0", "x">>), Tx(YOUR_SAFE_ADDRESS, 0, WellFormed)>>
    /\ pc = "for"
    /\ relayLog = <<>>

\* C10: the step after the sleep or the handler of a cycle starts another
\* cycle, one MONITOR_INTERVAL later, and a new cycle starts again and again.
C10_LoopNeverStops ==
    /\ [][(pc = "sleep" \/ pc = "except") =>
            (pc' = "height" /\ napped' = MONITOR_INTERVAL)]_vars
    /\ []<>(pc = "height")

\* a cycle that ended in the handler of line 88 is followed by a new cycle
C10_Witness ==
    /\ pc = "for"
    /\ entry = "except"

\* the block numbers in seq, in order of occurrence, are strictly ascending
Ascending(seq) == \A i, j \in 1..Len(seq) : i < j => seq[i] < seq[j]

\* C11: when a cycle has run to its sleep without an error, every block
\* number of its range above the cursor it started with has been passed to
\* get_block, and the fetches were made in ascending order.
C11_WindowFetched ==
    pc = "sleep" =>
        /\ \A b \in DueBlocks : \E k \in 1..Len(fetchLog) : fetchLog[k] = b
        /\ Ascending(fetchLog)

\* C12: while the range of a cycle is being iterated the cursor still has
\* the value the cycle started with: it moves to the height read only after
\* the last block of the range.
C12_CursorAfterRange ==
    (pc = "for" \/ pc = "fetch" \/ pc = "tx" \/ pc = "exec") =>
        last_logged_block = cursor0

\* C13: an attempt after the first of a relay call starts only after the
\* sleep of RETRY_DELAY seconds, whatever ended the attempt before it.
C13_SleepBeforeRetry ==
    (pc = "exec" /\ epc = "nonce" /\ attempt > 0) => rSlept = RETRY_DELAY

\* C14: a relay call that returned None has logged the terminal failure
\* of line 56, and a call that returned a receipt has not.
C14_TerminalLogOnNone ==
    \A j \in 1..Len(relayLog) :
        /\ relayLog[j].result = "None" => relayLog[j].termLogged
        /\ relayLog[j].result = "status1" => ~relayLog[j].termLogged

\* the calls an attempt has made before it is at the call named by e
StepsBefore(e) ==
    CASE e = "nonce" -> <<>>
      [] e = "gas" -> SubSeq(AttemptSteps, 1, 1)
      [] e = "price" -> SubSeq(AttemptSteps, 1, 2)
      [] e = "sign" -> SubSeq(AttemptSteps, 1, 3)
      [] e = "send" -> SubSeq(AttemptSteps, 1, 4)
      [] e = "wait" -> SubSeq(AttemptSteps, 1, 5)

\* C15: an attempt makes its calls in the order nonce read, gas estimation,
\* gas price read, signing, submission, receipt wait, starting with a nonce
\* read of its own; a transaction is submitted only by an attempt that has
\* made the four calls before it; and an attempt that raised, at the gas
\* estimation or anywhere else, made no call after the raising one and is
\* counted as one failed attempt of the budget.
C15_AttemptOrder ==
    /\ [](pc = "exec" =>
            /\ epc # "handler" => steps = StepsBefore(epc)
            /\ epc = "handler" =>
                 \E n \in 1..Len(AttemptSteps) : steps = SubSeq(AttemptSteps, 1, n))
    /\ [][(epc # "wait" /\ epc' = "wait") =>
            steps = StepsBefore("send")]_vars
    /\ [][(epc = "handler" /\ epc' # "handler") =>
            (/\ relayLog'[cur].fails = relayLog[cur].fails + 1
             /\ inflight' = inflight
             /\ steps' = <<>>)]_vars

\* the second attempt of a call raised at the gas estimation, after a first
\* attempt that was submitted
C15_Witness ==
    /\ pc = "exec" /\ epc = "handler"
    /\ attempt = 1
    /\ steps = <<"nonce", "gas">>
    /\ relayLog[cur].unobserved

\* the relay calls that have not returned
ActiveCalls == {j \in 1..Len(relayLog) : relayLog[j].result = "active"}

\* C16: at most one relay call is active, it is the last one started and
\* the monitor is inside it; a receipt is awaited only for the transaction
\* that call submitted; a relay call starts only when none is active; and
\* line 73 is reached only when every transaction of the block fetched
\* before has been handled and no relay call is active.
C16_StrictlySequential ==
    /\ [](/\ Cardinality(ActiveCalls) <= 1
          /\ ActiveCalls # {} => (ActiveCalls = {cur} /\ pc = "exec")
          /\ epc = "wait" => (pc = "exec" /\ inflight = cur))
    /\ [][Len(relayLog') > Len(relayLog) => ActiveCalls = {}]_vars
    /\ [][(pc # "fetch" /\ pc' = "fetch") =>
            (txIdx > Len(block) /\ ActiveCalls = {})]_vars

\* two relay calls were made for the first block, one after the other, and
\* the second block was fetched after both had returned
C16_Witness ==
    /\ Len(relayLog) = 2
    /\ Len(fetchLog) = 2
    /\ pc = "tx"
    /\ ActiveCalls = {}

\* a transfer call to a registered token whose payload is shorter than the
\* selector and two 32-byte arguments
IsTruncatedTransfer(tx) ==
    /\ Registered(tx.to) # {}
    /\ StartsWith(tx.input, TRANSFER_SELECTOR)
    /\ Len(tx.input) < 138

\* C17: a step taken while the loop of line 74 stands at a truncated
\* transfer call to a registered token starts no relay call and does not
\* enter the handler of line 88, and the step that handles the transaction
\* goes on with the next one; when the cycle then runs to its sleep without
\* an error, the transactions after it have been classified and the blocks
\* after its block have been fetched.
C17_TruncatedSkipped ==
    /\ [][(pc = "tx" /\ txIdx <= Len(block) /\ IsTruncatedTransfer(block[txIdx])) =>
            (/\ pc' = "tx"
             /\ Len(relayLog') = Len(relayLog)
             /\ txIdx' # txIdx => txIdx' = txIdx + 1)]_vars
    /\ [](\A b \in DOMAIN chain : \A i \in 1..Len(chain[b]) :
            (/\ IsTruncatedTransfer(chain[b][i])
             /\ pc = "sleep"
             /\ \E k \in 1..Len(fetchLog) : fetchLog[k] = b) =>
                (/\ RelaysOf(b, i) = {}
                 /\ \A n \in (i + 1)..Len(chain[b]) :
                        IsNativeDeposit(chain[b][n]) => RelaysOf(b, n) # {}
                 /\ \A m \in b..latest_block :
                        \E k \in 1..Len(fetchLog) : fetchLog[k] = m))

\* the block began with a truncated transfer call: the native deposit after
\* it was relayed, the next block was fetched and the cycle is asleep
C17_Witness ==
    /\ pc = "sleep"
    /\ ChainBlock(fetchLog[1]) = <<TruncatedTx, NativeTx>>
    /\ Len(fetchLog) = 2
    /\ Len(relayLog) = 1
    /\ relayLog[1].idx = 2

\* the greatest height a completed get_block_number has returned, 0 when
\* none has completed
MaxHeightRead ==
    IF heightsRead = {} THEN 0
    ELSE CHOOSE h \in heightsRead : \A g \in heightsRead : g <= h

\* C18: the cursor is the greatest height any completed height read has
\* returned, 0 before the first; so it is 0 or a height the node reported.
C18_CursorIsMaxRead ==
    /\ last_logged_block = MaxHeightRead
    /\ last_logged_block = 0 \/ last_logged_block \in heightsRead

\* after reads of different heights the node returned a height below the
\* cursor: the cursor is still the greatest height read
C18_Witness ==
    /\ pc = "for"
    /\ latest_block < last_logged_block
    /\ Cardinality(heightsRead) >= 2

\* C19: the step in which the height read fails, and every step of the
\* handler it leads to, changes neither the cursor nor the blocks fetched
\* nor the relay calls started; no step taken inside
\* execute_safe_transaction changes the cursor; and the cursor changes only
\* in the step that completes a height read, to the height read.
C19_CursorFrame ==
    /\ [][((pc = "height" /\ pc' = "except") \/ pc = "except") =>
            (/\ last_logged_block' = last_logged_block
             /\ fetchLog' = fetchLog
             /\ Len(relayLog') = Len(relayLog))]_vars
    /\ [][pc = "exec" => last_logged_block' = last_logged_block]_vars
    /\ [][last_logged_block' # last_logged_block =>
            (/\ pc = "height" /\ pc' = "for"
             /\ last_logged_block' = latest_block')]_vars

\* after a cycle that made a relay call and a cycle that advanced the
\* cursor, a height read has failed
C19_Witness ==
    /\ pc = "except"
    /\ entry # "start"
    /\ last_logged_block > 0
    /\ cursor0 = last_logged_block
    /\ Len(relayLog) = 1
    /\ Len(fetchLog) = 2

====
